---- MODULE Spec2Model ----
(***************************************************************************)
(* Model of src/src/lambda_function/lambda_handler.py: the service-history *)
(* Lambda handler.  One invocation of lambda_handler processes one event;  *)
(* the steps of an invocation are cut at the calls to the two external     *)
(* collaborators (AppConfig and CloudWatch Logs), whose outcomes are       *)
(* nondeterministic.  The log store persists across invocations.           *)
(*                                                                         *)
(* Text is a sequence of one-character strings, so that the regular        *)
(* expression, json.dumps / json.loads and the substring filter of the     *)
(* search are computed on characters.  Opaque texts that the handler only  *)
(* compares or passes on (HTTP methods, ISO-8601 texts) are sequences of   *)
(* one token.                                                              *)
(***************************************************************************)
EXTENDS Integers, Sequences, FiniteSets, TLC

VARIABLES
    pc,             \* position of the current invocation
    event,          \* the inbound event of the current invocation
    method,         \* lambda_handler: method
    route,          \* which handler the dispatcher called: none/create/read
    id_value,       \* handle_*_event: id_value
    body,           \* handle_create_event: body; handle_read_event: query_params
    time_range,     \* handle_read_event: (start_time, end_time)
    log_group_name, \* handle_*_event: log_group_name
    timestamp,      \* write_to_cloudwatch: timestamp
    calls,          \* collaborator calls issued by this invocation, in order
    raised,         \* the exception that reached lambda_handler's except clauses
    response,       \* what lambda_handler returned
    logs,           \* CloudWatch Logs: the log events stored so far
    written,        \* history: the accepted writes, as write_to_cloudwatch was called
    now             \* the wall clock, in hours since the epoch (process zone UTC)

vars == <<pc, event, method, route, id_value, body, time_range, log_group_name,
          timestamp, calls, raised, response, logs, written, now>>

-----------------------------------------------------------------------------
(* Bounds of the model *)

MaxPathLen == 3
MaxClock == 1
MaxRecords == 1
MaxPolls == 2

-----------------------------------------------------------------------------
(* Python values *)

Absent == [t |-> "absent"]                  \* key not in the dict
None == [t |-> "null"]
JStr(s) == [t |-> "str", v |-> s]
JInt(n) == [t |-> "int", v |-> n]
JBool(b) == [t |-> "bool", v |-> b]
JList(s) == [t |-> "list", v |-> s]
JObj(pairs) == [t |-> "obj", v |-> pairs]   \* dict: pairs <<key, value>> in insertion order

\* the element of a one-element set: The({e(x) : x \in {v}}) is e with x computed once
The(S) == CHOOSE x \in S : TRUE

IsStr(x) == x.t = "str"
IsDict(x) == x.t = "obj"

Keys(d) == {d.v[i][1] : i \in 1..Len(d.v)}
HasKey(d, k) == k \in Keys(d)
Get(d, k) == d.v[CHOOSE i \in 1..Len(d.v) : d.v[i][1] = k][2]

\* d[k] = val: an existing key keeps its position, a new key is appended
SetItem(d0, k0, val0) ==
    The({ IF HasKey(d, k)
          THEN JObj([i \in 1..Len(d.v) |-> IF d.v[i][1] = k THEN <<k, val>> ELSE d.v[i]])
          ELSE JObj(Append(d.v, <<k, val>>))
          : d \in {d0}, k \in {k0}, val \in {val0} })

RECURSIVE UpdateFrom(_, _, _)
UpdateFrom(d, e, i) ==
    IF i > Len(e.v) THEN d ELSE UpdateFrom(SetItem(d, e.v[i][1], e.v[i][2]), e, i + 1)

\* {**d, **e}
Merge(d0, e0) == The({ UpdateFrom(d, e, 1) : d \in {d0}, e \in {e0} })

\* Python truthiness of the values the handler tests
Truthy(x) ==
    CASE x.t = "absent" -> FALSE
      [] x.t = "null" -> FALSE
      [] x.t = "int" -> x.v # 0
      [] x.t = "bool" -> x.v
      [] x.t = "datetime" -> TRUE
      [] OTHER -> Len(x.v) > 0

Ok(v) == [ok |-> TRUE, value |-> v]
Raise(e) == [ok |-> FALSE, exc |-> e]

\* f"<fmt>{arg}": a message is the fixed text (one token) followed by the interpolated text
Msg(fmt, arg) == <<fmt>> \o arg

\* ValidationError(message): status_code defaults to 400
DefaultStatusCode == 400
ValidationError(fmt, arg) ==
    [kind |-> "ValidationError", message |-> Msg(fmt, arg), status_code |-> DefaultStatusCode]

\* any exception that is not a ValidationError
OtherError(kind, arg) == [kind |-> kind, message |-> arg]

NoExc == [kind |-> "none"]

Min(S) == CHOOSE x \in S : \A y \in S : x <= y
Max(S) == CHOOSE x \in S : \A y \in S : x >= y

-----------------------------------------------------------------------------
(* extract_id_from_path *)

NonSlashRun(s, i, k) == \A j \in (i + 1)..(i + k) : s[j] # "/"

\* "$": the end of the text, or just before a newline that ends the text
EndAnchor(s, p) == p = Len(s) \/ (p = Len(s) - 1 /\ s[Len(s)] = "\n")

\* lengths k >= 1 with which "/([^/]+)$" matches at the "/" in position i
MatchLens(s, i) ==
    {k \in 1..(Len(s) - i) : NonSlashRun(s, i, k) /\ EndAnchor(s, i + k)}

MatchStarts(s) == {i \in 1..Len(s) : s[i] = "/" /\ MatchLens(s, i) # {}}

\* variant: the pattern without its end anchor, r"/([^/]+)"
re_search_unanchored(s0) ==
    The({ IF starts = {}
          THEN [matched |-> FALSE, group1 |-> <<>>]
          ELSE The({ [matched |-> TRUE,
                      group1 |-> SubSeq(s, i + 1,
                                        i + Max({k \in 1..(Len(s) - i) : NonSlashRun(s, i, k)}))]
                     : i \in {Min(starts)} })
          : s \in {s0},
            starts \in {{i \in 1..(Len(s0) - 1) : s0[i] = "/" /\ s0[i + 1] # "/"}} })

\* re.search(r"/([^/]+)$", s): leftmost match, greedy group
re_search(s0) ==
    The({ IF starts = {}
          THEN [matched |-> FALSE, group1 |-> <<>>]
          ELSE The({ [matched |-> TRUE, group1 |-> SubSeq(s, i + 1, i + Max(MatchLens(s, i)))]
                     : i \in {Min(starts)} })
          : s \in {s0}, starts \in {MatchStarts(s0)} })

extract_id_from_path(path0) ==
    The({ IF ~IsStr(path)
          THEN Raise(ValidationError("Invalid path format: expected string, got ", <<path.t>>))
          ELSE IF path.v = <<>>
          THEN Raise(ValidationError("Empty path provided", <<>>))
          ELSE The({ IF ~match.matched
                     THEN Raise(ValidationError("ID not found in request path", <<>>))
                     ELSE IF match.group1 = <<>>
                     THEN Raise(ValidationError("Extracted ID is empty", <<>>))
                     ELSE Ok(match.group1)
                     : match \in {re_search(path.v)} })
          : path \in {path0} })

-----------------------------------------------------------------------------
(* json.dumps and json.loads on the JSON the handler meets: null, integers,  *)
(* strings without escapes, arrays and objects.                              *)

DigitChars == <<"0", "1", "2", "3", "4", "5", "6", "7", "8", "9">>
IsDigit(c) == \E d \in 1..10 : DigitChars[d] = c
DigitVal(c) == (CHOOSE d \in 1..10 : DigitChars[d] = c) - 1

RECURSIVE Digits(_)
Digits(n0) ==
    The({ IF n < 10 THEN <<DigitChars[n + 1]>>
          ELSE Digits(n \div 10) \o <<DigitChars[(n % 10) + 1]>>
          : n \in {n0} })

Quote(s) == <<"\"">> \o s \o <<"\"">>

RECURSIVE json_dumps(_)
RECURSIVE DumpMembers(_, _)
RECURSIVE DumpItems(_, _)
DumpMembers(pairs, i) ==
    IF i > Len(pairs) THEN <<>>
    ELSE (IF i > 1 THEN <<",", " ">> ELSE <<>>)
         \o Quote(pairs[i][1]) \o <<":", " ">> \o json_dumps(pairs[i][2])
         \o DumpMembers(pairs, i + 1)
DumpItems(items, i) ==
    IF i > Len(items) THEN <<>>
    ELSE (IF i > 1 THEN <<",", " ">> ELSE <<>>) \o json_dumps(items[i]) \o DumpItems(items, i + 1)
json_dumps(x0) ==
    The({ CASE x.t = "null" -> <<"n", "u", "l", "l">>
            [] x.t = "bool" -> IF x.v THEN <<"t", "r", "u", "e">> ELSE <<"f", "a", "l", "s", "e">>
            [] x.t = "int" -> Digits(x.v)
            [] x.t = "str" -> Quote(x.v)
            [] x.t = "list" -> <<"[">> \o DumpItems(x.v, 1) \o <<"]">>
            [] x.t = "obj" -> <<"{">> \o DumpMembers(x.v, 1) \o <<"}">>
          : x \in {x0} })

At(s, i) == IF i >= 1 /\ i <= Len(s) THEN s[i] ELSE ""

RECURSIVE SkipWs(_, _)
SkipWs(s, i0) ==
    The({ IF At(s, i) \in {" ", "\n"} THEN SkipWs(s, i + 1) ELSE i : i \in {i0} })

RECURSIVE DigitsEnd(_, _)
DigitsEnd(s, i0) ==
    The({ IF IsDigit(At(s, i)) THEN DigitsEnd(s, i + 1) ELSE i : i \in {i0} })

RECURSIVE NumberOf(_, _, _)
NumberOf(s, i, j) == IF j < i THEN 0 ELSE NumberOf(s, i, j - 1) * 10 + DigitVal(s[j])

ParseFail == [ok |-> FALSE, value |-> None, next |-> 0]
Parsed(v, n) == [ok |-> TRUE, value |-> v, next |-> n]

\* a string token starting at the quote in position i
ParseString(s, i0) ==
    The({ IF At(s, i) # "\"" \/ closing = {} THEN ParseFail
          ELSE The({ IF \E k \in (i + 1)..(j - 1) : s[k] \in {"\\", "\n"} THEN ParseFail
                     ELSE Parsed(JStr(SubSeq(s, i + 1, j - 1)), j + 1)
                     : j \in {Min(closing)} })
          : i \in {i0}, closing \in {{j \in (i0 + 1)..Len(s) : s[j] = "\""}} })

ParseNumber(s, i0) ==
    The({ IF j = i \/ (s[i] = "0" /\ j > i + 1) THEN ParseFail
          ELSE Parsed(JInt(NumberOf(s, i, j - 1)), j)
          : i \in {i0}, j \in {DigitsEnd(s, i0)} })

RECURSIVE ParseValue(_, _)
RECURSIVE ParseMembers(_, _, _)
RECURSIVE ParseItems(_, _, _)
\* after a member or an item: the closing bracket, or a comma and the rest
ParseRest(s, e0, closer, d) ==
    The({ IF At(s, e) = closer THEN Parsed(d, e + 1)
          ELSE IF At(s, e) # "," THEN ParseFail
          ELSE IF closer = "}" THEN ParseMembers(s, SkipWs(s, e + 1), d)
          ELSE ParseItems(s, SkipWs(s, e + 1), d)
          : e \in {e0} })
\* the members of an object from position i on, acc the dict built so far
ParseMembers(s, i0, acc0) ==
    The({ IF ~key.ok THEN ParseFail
          ELSE The({ IF At(s, c) # ":" THEN ParseFail
                     ELSE The({ IF ~val.ok THEN ParseFail
                                ELSE ParseRest(s, SkipWs(s, val.next), "}",
                                               SetItem(acc, key.value.v, val.value))
                                : val \in {ParseValue(s, SkipWs(s, c + 1))} })
                     : c \in {SkipWs(s, key.next)} })
          : acc \in {acc0}, key \in {ParseString(s, i0)} })
ParseItems(s, i0, acc0) ==
    The({ IF ~val.ok THEN ParseFail
          ELSE ParseRest(s, SkipWs(s, val.next), "]", JList(Append(acc.v, val.value)))
          : acc \in {acc0}, val \in {ParseValue(s, i0)} })
ParseValue(s, i0) ==
    The({ CASE At(s, i) = "{" ->
                The({ IF At(s, j) = "}" THEN Parsed(JObj(<<>>), j + 1)
                      ELSE ParseMembers(s, j, JObj(<<>>))
                      : j \in {SkipWs(s, i + 1)} })
            [] At(s, i) = "[" ->
                The({ IF At(s, j) = "]" THEN Parsed(JList(<<>>), j + 1)
                      ELSE ParseItems(s, j, JList(<<>>))
                      : j \in {SkipWs(s, i + 1)} })
            [] At(s, i) = "\"" -> ParseString(s, i)
            [] At(s, i) = "n" ->
                IF SubSeq(s, i, Min({i + 3, Len(s)})) = <<"n", "u", "l", "l">>
                THEN Parsed(None, i + 4) ELSE ParseFail
            [] At(s, i) = "t" ->
                IF SubSeq(s, i, Min({i + 3, Len(s)})) = <<"t", "r", "u", "e">>
                THEN Parsed(JBool(TRUE), i + 4) ELSE ParseFail
            [] At(s, i) = "f" ->
                IF SubSeq(s, i, Min({i + 4, Len(s)})) = <<"f", "a", "l", "s", "e">>
                THEN Parsed(JBool(FALSE), i + 5) ELSE ParseFail
            [] OTHER -> ParseNumber(s, i)
          : i \in {i0} })

\* json.loads(s): the value, or JSONDecodeError
json_loads(s0) ==
    The({ The({ IF r.ok /\ SkipWs(s, r.next) = Len(s) + 1
                THEN Ok(r.value)
                ELSE Raise(OtherError("JSONDecodeError", <<>>))
                : r \in {ParseValue(s, SkipWs(s, 1))} })
          : s \in {s0} })

-----------------------------------------------------------------------------
(* Texts of the handler *)

K_id == <<"i", "d">>
K_timestamp == <<"t", "i", "m", "e", "s", "t", "a", "m", "p">>
K_at_timestamp == <<"@">> \o K_timestamp
K_message == <<"m", "e", "s", "s", "a", "g", "e">>
K_success == <<"s", "u", "c", "c", "e", "s", "s">>
K_start == <<"s", "t", "a", "r", "t">>
K_end == <<"e", "n", "d">>
K_startTime == <<"startTime">>
K_endTime == <<"endTime">>
K_count == <<"count">>
K_records == <<"records">>
LOG_GROUP_CONFIG_KEY == <<"l", "o", "g", "G", "r", "o", "u", "p">>

\* sub in text
IsSubstring(sub, text) ==
    \E i \in 0..(Len(text) - Len(sub)) : SubSeq(text, i + 1, i + Len(sub)) = sub

\* k in container
ContainsKey(container, k) ==
    CASE container.t = "obj" -> Ok(HasKey(container, k))
      [] container.t = "info" -> Ok(k = <<"fieldName">> /\ container.fieldName.t # "absent")
      [] container.t = "list" -> Ok(\E i \in 1..Len(container.v) : container.v[i] = JStr(k))
      [] container.t = "str" -> Ok(IsSubstring(k, container.v))
      [] OTHER -> Raise(OtherError("TypeError", <<"argument is not iterable">>))

-----------------------------------------------------------------------------
(* Time: datetimes count hours; the process zone is UTC *)

Hour == 1
MsPerHour == 3600 * 1000

Datetime(h, aware, off) == [t |-> "datetime", hour |-> h, aware |-> aware, off |-> off]

\* datetime.now(): naive, local
datetime_now(clock) == Datetime(clock, FALSE, 0)

\* datetime.timestamp(): seconds since the epoch; a naive value is taken as local time
EpochHour(dt) == dt.hour - dt.off

\* int(dt.timestamp() * 1000)
TimestampMs(dt) == EpochHour(dt) * MsPerHour

\* int(time.time() * 1000)
time_ms(clock) == clock * MsPerHour

\* a >= b on datetimes: naive and aware values do not compare
datetime_ge(a, b) ==
    IF a.aware # b.aware
    THEN Raise(OtherError("TypeError", <<"can't compare offset-naive and offset-aware datetimes">>))
    ELSE Ok(EpochHour(a) >= EpochHour(b))

\* the ISO-8601 texts of the model and the datetimes dateutil's parser.parse gives
IsoTexts ==
    { <<"1970-01-01T00:00:00", Datetime(0, FALSE, 0)>>,
      <<"1970-01-01T02:00:00", Datetime(2, FALSE, 0)>>,
      <<"1970-01-01T00:00:00Z", Datetime(0, TRUE, 0)>>,
      <<"1970-01-01T03:00:00+01:00", Datetime(3, TRUE, 1)>> }

\* parser.parse(x): ParserError is a ValueError; a non-string is a TypeError
dateutil_parse(x0) ==
    The({ IF ~IsStr(x)
          THEN Raise(OtherError("TypeError", <<"Parser must be a string or character stream">>))
          ELSE IF \E p \in IsoTexts : x.v = <<p[1]>>
          THEN Ok((CHOOSE p \in IsoTexts : x.v = <<p[1]>>)[2])
          ELSE Raise(OtherError("ValueError", <<"Unknown string format">>))
          : x \in {x0} })

TwoDigits(n) == IF n < 10 THEN <<"0">> \o Digits(n) ELSE Digits(n)

\* datetime.isoformat()
isoformat(dt) ==
    (IF dt.hour >= 0
     THEN <<"1970-01-01T">> \o TwoDigits(dt.hour)
     ELSE <<"1969-12-31T">> \o TwoDigits(24 + dt.hour))
    \o <<":00:00">>
    \o (IF dt.aware THEN <<"+">> \o TwoDigits(dt.off) \o <<":00">> ELSE <<>>)

-----------------------------------------------------------------------------
(* Input validation *)

\* variant: the emptiness test left out
validate_create_input_any_dict(b0) ==
    The({ IF b.t = "null"
          THEN Raise(ValidationError("Request body cannot be None", <<>>))
          ELSE IF ~IsDict(b)
          THEN Raise(ValidationError("Request body must be a JSON object, got ", <<b.t>>))
          ELSE Ok(None)
          : b \in {b0} })

validate_create_input(b0) ==
    The({ IF b.t = "null"
          THEN Raise(ValidationError("Request body cannot be None", <<>>))
          ELSE IF ~IsDict(b)
          THEN Raise(ValidationError("Request body must be a JSON object, got ", <<b.t>>))
          ELSE IF ~Truthy(b)
          THEN Raise(ValidationError("Request body cannot be empty", <<>>))
          ELSE Ok(None)
          : b \in {b0} })

\* parser.parse(query_params[key]) inside try / except ValueError, when key is present
ParseTimeField(query_params, key, fmt) ==
    The({ IF ~has.ok THEN has
          ELSE IF ~has.value THEN Ok(None)
          ELSE The({ IF r.ok THEN r
                     ELSE IF r.exc.kind = "ValueError" THEN Raise(ValidationError(fmt, <<>>))
                     ELSE r
                     : r \in {dateutil_parse(Get(query_params, key))} })
          : has \in {ContainsKey(query_params, key)} })

\* variant: start_time > end_time in place of start_time >= end_time
CheckRangeAllowingEqual(start_time, end_time) ==
    The({ IF ~ge.ok THEN ge
          ELSE IF ge.value /\ EpochHour(start_time) # EpochHour(end_time)
          THEN Raise(ValidationError("Start time must be before end time", <<>>))
          ELSE Ok([start |-> start_time, end |-> end_time])
          : ge \in {datetime_ge(start_time, end_time)} })

\* the time range check and the return of validate_read_input
CheckRange(start_time, end_time) ==
    The({ IF ~ge.ok THEN ge
          ELSE IF ge.value
          THEN Raise(ValidationError("Start time must be before end time", <<>>))
          ELSE Ok([start |-> start_time, end |-> end_time])
          : ge \in {datetime_ge(start_time, end_time)} })

\* the default of an absent start: the last hour
DefaultStart(clock) == Datetime(clock - Hour, FALSE, 0)

\* the default of an absent end
DefaultEnd(clock) == datetime_now(clock)

validate_read_input(query_params0, id0, clock) ==
    The({ IF id = <<>> THEN Raise(ValidationError("ID is required", <<>>))
          ELSE The({ IF ~s.ok THEN s
                     ELSE The({ IF ~e.ok THEN e
                                ELSE CheckRange(
                                       IF s.value.t = "null" THEN DefaultStart(clock) ELSE s.value,
                                       IF e.value.t = "null" THEN DefaultEnd(clock) ELSE e.value)
                                : e \in {ParseTimeField(query_params, K_end,
                                           "Invalid end time format. Expected ISO 8601 format.")} })
                     : s \in {ParseTimeField(query_params, K_start,
                                "Invalid start time format. Expected ISO 8601 format.")} })
          : query_params \in {query_params0}, id \in {id0} })

-----------------------------------------------------------------------------
(* Config lookup: get_log_group_name on what get_configuration gave *)

\* the logGroup value of the parsed blob
ConfiguredName(config_data) ==
    IF ~IsDict(config_data)
    THEN Raise(ValidationError("Could not retrieve log group configuration: ",
                               <<"object has no attribute 'get'">>))
    ELSE The({ IF ~Truthy(name)
               THEN Raise(ValidationError("Configuration missing 'logGroup' key", <<>>))
               ELSE IF ~IsStr(name)
               THEN Raise(ValidationError("Invalid log group name type: expected string, got ",
                                          <<name.t>>))
               ELSE Ok(name.v)
               : name \in {IF HasKey(config_data, LOG_GROUP_CONFIG_KEY)
                           THEN Get(config_data, LOG_GROUP_CONFIG_KEY) ELSE None} })

\* variant: without the outer except clause, a failure of the call leaves as it is
get_log_group_name_unwrapped(outcome) ==
    IF outcome.kind = "error"
    THEN Raise(OtherError("ClientError", outcome.detail))
    ELSE IF outcome.content.t = "absent"
    THEN Raise(ValidationError("Invalid configuration format: ", <<"'Content'">>))
    ELSE The({ IF ~config_data.ok
               THEN Raise(ValidationError("Invalid configuration format: ", <<"JSONDecodeError">>))
               ELSE ConfiguredName(config_data.value)
               : config_data \in {json_loads(outcome.content.v)} })

\* outcome: [kind |-> "error", detail] when the call raised, else
\*          [kind |-> "response", content] with content Absent or the blob's text
get_log_group_name(outcome) ==
    IF outcome.kind = "error"
    THEN Raise(ValidationError("Could not retrieve log group configuration: ", outcome.detail))
    ELSE IF outcome.content.t = "absent"
    THEN Raise(ValidationError("Invalid configuration format: ", <<"'Content'">>))
    ELSE The({ IF ~config_data.ok
               THEN Raise(ValidationError("Invalid configuration format: ", <<"JSONDecodeError">>))
               ELSE ConfiguredName(config_data.value)
               : config_data \in {json_loads(outcome.content.v)} })

-----------------------------------------------------------------------------
(* Events and the dispatcher *)

Event(m, p, b, q, i, a) ==
    [httpMethod |-> m, path |-> p, body |-> b, queryStringParameters |-> q,
     info |-> i, arguments |-> a]

Info(fieldName, parentTypeName) ==
    [t |-> "info", fieldName |-> fieldName, parentTypeName |-> parentTypeName]

EmptyEvent == Event(Absent, Absent, Absent, Absent, Absent, Absent)

LowerCase == <<"a", "b", "c", "d", "e", "f", "g", "h", "i", "j", "k", "l", "m",
               "n", "o", "p", "q", "r", "s", "t", "u", "v", "w", "x", "y", "z">>
UpperCase == <<"A", "B", "C", "D", "E", "F", "G", "H", "I", "J", "K", "L", "M",
               "N", "O", "P", "Q", "R", "S", "T", "U", "V", "W", "X", "Y", "Z">>

UpperChar(c) ==
    IF \E k \in 1..Len(LowerCase) : LowerCase[k] = c
    THEN UpperCase[CHOOSE k \in 1..Len(LowerCase) : LowerCase[k] = c]
    ELSE c

\* str.upper()
upper(s) == [k \in 1..Len(s) |-> UpperChar(s[k])]

MUTATION == <<"M", "U", "T", "A", "T", "I", "O", "N">>
QUERY == <<"Q", "U", "E", "R", "Y">>
POST == JStr(<<"POST">>)
PUT == JStr(<<"PUT">>)
GET == JStr(<<"GET">>)
DELETE == JStr(<<"DELETE">>)
PATCH == JStr(<<"PATCH">>)
NoMethod == JStr(<<>>)

\* f"{x}"
Format(x) ==
    CASE x.t = "str" -> x.v
      [] x.t = "null" -> <<"None">>
      [] x.t = "int" -> Digits(x.v)
      [] OTHER -> <<x.t>>

\* variant: the operation type compared as given, without upper()
OperationMethodExact(parentTypeName) ==
    IF parentTypeName = <<"M", "u", "t", "a", "t", "i", "o", "n">> THEN POST
    ELSE IF parentTypeName = <<"Q", "u", "e", "r", "y">> THEN GET
    ELSE NoMethod

\* the operation type of a resolver event mapped to a method
OperationMethod(parentTypeName) ==
    LET operation_type == upper(parentTypeName) IN
    IF operation_type = MUTATION THEN POST
    ELSE IF operation_type = QUERY THEN GET
    ELSE NoMethod

\* event["info"].get(key, "")
InfoGet(info, key) ==
    IF info.t # "info"
    THEN Raise(OtherError("AttributeError", <<"object has no attribute 'get'">>))
    ELSE LET x == IF key = "fieldName" THEN info.fieldName ELSE info.parentTypeName
         IN Ok(IF x.t = "absent" THEN JStr(<<>>) ELSE x)

\* variant: "info" in event, whatever the info holds
IsResolverEventByInfo(ev) == Ok(ev.info.t # "absent")

\* "info" in event and "fieldName" in event["info"]
IsResolverEvent(ev) ==
    IF ev.info.t = "absent" THEN Ok(FALSE) ELSE ContainsKey(ev.info, <<"fieldName">>)

\* the method of a resolver event
ResolverMethod(ev) ==
    The({ IF ~ptn.ok THEN ptn
          ELSE IF ~IsStr(ptn.value)
          THEN Raise(OtherError("AttributeError", <<"object has no attribute 'upper'">>))
          ELSE Ok(OperationMethod(ptn.value.v))
          : ptn \in {InfoGet(ev.info, "parentTypeName")} })

\* lambda_handler: the method of the event
ResolveMethod(ev) ==
    IF ev.httpMethod.t # "absent" THEN Ok(ev.httpMethod)
    ELSE The({ IF ~resolver.ok THEN resolver
               ELSE IF ~resolver.value THEN Ok(NoMethod)
               ELSE ResolverMethod(ev)
               : resolver \in {IsResolverEvent(ev)} })

\* variant: PATCH taken as an update and sent to the create branch
DispatchPatchAsCreate(m) ==
    IF m = POST \/ m = PUT \/ m = PATCH THEN "create"
    ELSE IF m = GET THEN "read"
    ELSE IF m = DELETE THEN "not_allowed"
    ELSE "unsupported"

\* lambda_handler: which branch the method takes
Dispatch(m) ==
    IF m = POST \/ m = PUT THEN "create"
    ELSE IF m = GET THEN "read"
    ELSE IF m = DELETE \/ m = PATCH THEN "not_allowed"
    ELSE "unsupported"

NoResponse == [kind |-> "none"]

Envelope(statusCode, b) ==
    The({ [kind |-> "return", statusCode |-> statusCode, body |-> text,
           headers |-> [ContentType |-> "application/json"]]
          : text \in {json_dumps(b)} })

FailureBody(message) ==
    JObj(<< <<K_message, JStr(message)>>, <<K_success, JBool(FALSE)>> >>)

MethodNotAllowed ==
    Envelope(405, FailureBody(
        <<"Method not allowed. Update and Delete operations are not supported.">>))

UnsupportedMethod(m) == Envelope(400, FailureBody(Msg("Unsupported method: ", Format(m))))

\* variant: only ValidationError is caught, anything else leaves lambda_handler
lambda_handler_except_validation_only(exc) ==
    IF exc.kind = "ValidationError"
    THEN Envelope(exc.status_code, FailureBody(exc.message))
    ELSE [kind |-> "raise", exc |-> exc]

\* variant: the 500 response carries the text of the exception
lambda_handler_except_exposing(exc) ==
    IF exc.kind = "ValidationError"
    THEN Envelope(exc.status_code, FailureBody(exc.message))
    ELSE Envelope(500, FailureBody(exc.message))

\* the except clauses of lambda_handler
lambda_handler_except(exc) ==
    IF exc.kind = "ValidationError"
    THEN Envelope(exc.status_code, FailureBody(exc.message))
    ELSE Envelope(500, FailureBody(<<"Internal server error">>))

-----------------------------------------------------------------------------
(* handle_create_event and handle_read_event up to the config lookup *)

\* event.get(key, {})
GetOrEmpty(x) == IF x.t = "absent" THEN JObj(<<>>) ELSE x

\* the resolver branch of both handlers: the field name and the arguments
ResolverInputs(ev) ==
    The({ IF ~resolver.ok THEN resolver
          ELSE IF ~resolver.value THEN Raise(ValidationError("Unsupported event format", <<>>))
          ELSE The({ IF ~fieldName.ok THEN fieldName
                     ELSE Ok([path |-> fieldName.value, body |-> GetOrEmpty(ev.arguments)])
                     : fieldName \in {InfoGet(ev.info, "fieldName")} })
          : resolver \in {IsResolverEvent(ev)} })

\* handle_create_event: path and body of the event
CreateInputs(ev) ==
    IF ev.path.t = "absent" THEN ResolverInputs(ev)
    ELSE IF ev.body.t = "absent" THEN Ok([path |-> ev.path, body |-> JObj(<<>>)])
    ELSE IF ~IsStr(ev.body) THEN Ok([path |-> ev.path, body |-> ev.body])
    ELSE The({ IF r.ok THEN Ok([path |-> ev.path, body |-> r.value])
               ELSE Raise(ValidationError("Invalid JSON in request body", <<>>))
               : r \in {json_loads(ev.body.v)} })

\* handle_read_event: path and query parameters of the event
ReadInputs(ev) ==
    IF ev.path.t = "absent" THEN ResolverInputs(ev)
    ELSE Ok([path |-> ev.path,
             body |-> IF Truthy(GetOrEmpty(ev.queryStringParameters))
                      THEN ev.queryStringParameters ELSE JObj(<<>>)])

NoRange == [start |-> None, end |-> None]

\* handle_create_event down to validate_create_input
CreateFront(ev) ==
    The({ IF ~inputs.ok THEN inputs
          ELSE The({ IF ~id.ok THEN id
                     ELSE The({ IF ~valid.ok THEN valid
                                ELSE Ok([id |-> id.value, body |-> inputs.value.body,
                                         range |-> NoRange])
                                : valid \in {validate_create_input(inputs.value.body)} })
                     : id \in {extract_id_from_path(inputs.value.path)} })
          : inputs \in {CreateInputs(ev)} })

\* handle_read_event down to validate_read_input
ReadFront(ev, clock) ==
    The({ IF ~inputs.ok THEN inputs
          ELSE The({ IF ~id.ok THEN id
                     ELSE The({ IF ~range.ok THEN range
                                ELSE Ok([id |-> id.value, body |-> inputs.value.body,
                                         range |-> range.value])
                                : range \in {validate_read_input(inputs.value.body,
                                                                 id.value, clock)} })
                     : id \in {extract_id_from_path(inputs.value.path)} })
          : inputs \in {ReadInputs(ev)} })

-----------------------------------------------------------------------------
(* The storage collaborator: CloudWatch Logs Insights over the stored events *)

\* f'fields @timestamp, @message | filter @message like "{id_value}" | sort @timestamp desc'
QueryString(id) ==
    <<"fields @timestamp, @message | filter @message like \"">> \o id
    \o <<"\" | sort @timestamp desc">>

\* the text between the quotes of the like clause
LikePattern(queryString) == SubSeq(queryString, 2, Len(queryString) - 1)

Matching(store, group, startTime, endTime, queryString) ==
    {i \in 1..Len(store) :
        /\ store[i].logGroupName = group
        /\ startTime <= store[i].timestamp
        /\ store[i].timestamp <= endTime
        /\ IsSubstring(LikePattern(queryString), store[i].message)}

\* the latest event of a non-empty set of positions (of equal times, the later written)
Latest(store, S) ==
    CHOOSE i \in S : \A j \in S :
        \/ store[j].timestamp < store[i].timestamp
        \/ (store[j].timestamp = store[i].timestamp /\ j <= i)

ResultRow(e) ==
    << [field |-> <<"@timestamp">>, value |-> <<"ts ">> \o Digits(e.timestamp)],
       [field |-> <<"@message">>, value |-> e.message] >>

RECURSIVE SortedRows(_, _)
SortedRows(store, S0) ==
    The({ IF S = {} THEN <<>>
          ELSE The({ <<ResultRow(store[i])>> \o SortedRows(store, S \ {i})
                     : i \in {Latest(store, S)} })
          : S \in {S0} })

\* what a completed query returns
Search(store, group, startTime, endTime, queryString) ==
    SortedRows(store, Matching(store, group, startTime, endTime, queryString))

-----------------------------------------------------------------------------
(* query_cloudwatch_logs: the rows of the last poll turned into records *)

\* json.loads(value), or the raw text when it is no JSON
MessageOf(value) ==
    The({ IF r.ok THEN r.value ELSE JStr(value) : r \in {json_loads(value)} })

RECURSIVE RowFields(_, _, _)
\* the loop over the fields of one row: acc = [message, timestamp]
RowFields(row, k, acc0) ==
    The({ IF k > Len(row) THEN acc
          ELSE IF row[k].field = <<"@message">>
          THEN RowFields(row, k + 1, [acc EXCEPT !.message = MessageOf(row[k].value)])
          ELSE IF row[k].field = <<"@timestamp">>
          THEN RowFields(row, k + 1, [acc EXCEPT !.timestamp = JStr(row[k].value)])
          ELSE RowFields(row, k + 1, acc)
          : acc \in {acc0} })

\* one row of the results: the record appended, if any
RowRecord(row) ==
    The({ IF ~Truthy(f.message) THEN <<>>
          ELSE IF Truthy(f.timestamp) /\ IsDict(f.message)
          THEN <<SetItem(f.message, K_at_timestamp, f.timestamp)>>
          ELSE <<f.message>>
          : f \in {RowFields(row, 1, [message |-> None, timestamp |-> None])} })

RECURSIVE ProcessResults(_, _)
ProcessResults(rows, k) ==
    IF k > Len(rows) THEN <<>> ELSE RowRecord(rows[k]) \o ProcessResults(rows, k + 1)

\* handle_read_event: the response
ReadResponse(id, range, results) ==
    Envelope(200, JObj(<< <<K_id, JStr(id)>>,
                          <<K_startTime, JStr(isoformat(range.start))>>,
                          <<K_endTime, JStr(isoformat(range.end))>>,
                          <<K_count, JInt(Len(results))>>,
                          <<K_records, JList(results)>> >>))

\* variant: the create response with status 201
CreateResponseCreated(id) ==
    Envelope(201, JObj(<< <<K_message, JStr(<<"Data successfully recorded">>)>>,
                          <<K_id, JStr(id)>>,
                          <<K_success, JBool(TRUE)>> >>))

\* handle_create_event: the response
CreateResponse(id) ==
    Envelope(200, JObj(<< <<K_message, JStr(<<"Data successfully recorded">>)>>,
                          <<K_id, JStr(id)>>,
                          <<K_success, JBool(TRUE)>> >>))

\* write_to_cloudwatch: event_data = {"id": id_value, "timestamp": timestamp, **data}
EventData(id, ts, data) ==
    Merge(JObj(<< <<K_id, JStr(id)>>, <<K_timestamp, JInt(ts)>> >>), data)

\* f"{id_value}/{timestamp}"
LogStreamName(id, ts) == id \o <<"/">> \o Digits(ts)

_validate_cloudwatch_inputs(name, id, data) ==
    IF name = <<>> THEN Raise(ValidationError("Log group name cannot be empty", <<>>))
    ELSE IF id = <<>> THEN Raise(ValidationError("ID value cannot be empty", <<>>))
    ELSE IF data.t = "null" THEN Raise(ValidationError("Data cannot be None", <<>>))
    ELSE Ok(None)

-----------------------------------------------------------------------------
(* Inputs of the model *)

Details == {<<"timeout">>, <<"access denied">>}      \* texts of collaborator failures

P_x == JStr(<<"/", "x">>)
P_y == JStr(<<"/", "s", "/", "y">>)
P_m == JStr(<<"/", "m">>)                            \* an id that occurs in the text of other records
PathValues ==
    {P_x, P_y, JStr(<<>>), JStr(<<"/">>), JStr(<<"/", "x", "/">>), JStr(<<"x">>), None}

Payload_m == JObj(<< <<K_message, JStr(<<"m">>)>> >>)
Payload_id == JObj(<< <<K_id, JStr(<<"y">>)>>, <<K_message, JStr(<<"m">>)>> >>)
Payloads == {Payload_m, Payload_id}

BodyValues ==
    {JStr(json_dumps(b)) : b \in Payloads}
    \cup {Payload_m, Absent, None, JStr(<<"{", "}">>), JStr(<<"{", "\"", "m">>),
          JStr(<<"n", "u", "l", "l">>), JStr(<<"[", "1", "]">>), JList(<<JInt(1)>>)}

TimeTexts ==
    {JStr(<<"1970-01-01T00:00:00">>), JStr(<<"1970-01-01T02:00:00">>),
     JStr(<<"1970-01-01T00:00:00Z">>), JStr(<<"1970-01-01T03:00:00+01:00">>),
     JStr(<<"yesterday">>)}

QueryParamValues ==
    {JObj(<<>>)}
    \cup {JObj(<< <<K_start, a>> >>) : a \in TimeTexts}
    \cup {JObj(<< <<K_end, b>> >>) : b \in TimeTexts}
    \cup {JObj(<< <<K_start, a>>, <<K_end, b>> >>) : a \in TimeTexts, b \in TimeTexts}

Methods == {POST, PUT, GET, DELETE, PATCH, JStr(<<"OPTIONS">>), JStr(<<"post">>), None}

TypeNames ==
    {JStr(<<"M", "u", "t", "a", "t", "i", "o", "n">>),
     JStr(<<"m", "u", "t", "a", "t", "i", "o", "n">>),
     JStr(<<"m", "U", "t", "A", "t", "I", "o", "N">>),
     JStr(<<"Q", "u", "e", "r", "y">>),
     JStr(<<"q", "u", "e", "r", "y">>),
     JStr(<<"Q", "U", "E", "R", "Y">>),
     JStr(<<"S", "u", "b", "s", "c", "r", "i", "p", "t", "i", "o", "n">>),
     JStr(<<>>), None, Absent}

F_x == JStr(<<"f", "/", "x">>)
FieldNames == {F_x, JStr(<<"g", "e", "t">>), Absent}

GatewayEvents ==
    {Event(m, P_x, JStr(json_dumps(Payload_m)), Absent, Absent, Absent) : m \in Methods}
    \cup {Event(POST, p, b, Absent, Absent, Absent) :
            p \in PathValues \cup {Absent}, b \in {JStr(json_dumps(Payload_m)), Absent}}
    \cup {Event(m, p, b, Absent, Absent, Absent) :
            m \in {POST, PUT}, p \in {P_x, P_y}, b \in BodyValues}
    \cup {Event(GET, p, Absent, q, Absent, Absent) :
            p \in PathValues \cup {Absent}, q \in {Absent, None}}
    \cup {Event(GET, P_x, Absent, q, Absent, Absent) : q \in QueryParamValues}
    \cup {Event(GET, p, Absent, JObj(<<>>), Absent, Absent) : p \in {P_y, P_m}}

ResolverEvents ==
    {Event(Absent, Absent, Absent, Absent, Info(f, n), Payload_m) :
        f \in FieldNames, n \in TypeNames}
    \cup {Event(Absent, Absent, Absent, Absent, Info(F_x, n), a) :
            n \in {JStr(<<"M", "u", "t", "a", "t", "i", "o", "n">>), JStr(<<"Q", "u", "e", "r", "y">>)},
            a \in {Absent, None, JObj(<<>>), Payload_id,
                   JObj(<< <<K_start, JStr(<<"1970-01-01T00:00:00Z">>)>> >>)}}
    \cup {Event(Absent, Absent, Absent, Absent, None, Absent),
          Event(Absent, P_x, Absent, Absent, Info(F_x, JStr(<<"Q", "u", "e", "r", "y">>)), Absent),
          Event(POST, Absent, Absent, Absent, Info(F_x, Absent), Payload_m),
          Event(POST, Absent, Absent, Absent, None, Payload_m)}
    \cup {Event(m, Absent, Absent, Absent, Info(Absent, JStr(<<"Q", "u", "e", "r", "y">>)), Payload_m)
          : m \in {POST, GET}}

Events == GatewayEvents \cup ResolverEvents \cup {EmptyEvent}

ConfigContents ==
    {Absent,
     JStr(json_dumps(JObj(<< <<LOG_GROUP_CONFIG_KEY, JStr(<<"l", "g">>)>> >>))),
     JStr(json_dumps(JObj(<< <<LOG_GROUP_CONFIG_KEY, JStr(<<>>)>> >>))),
     JStr(json_dumps(JObj(<< <<LOG_GROUP_CONFIG_KEY, JInt(5)>> >>))),
     JStr(<<"{", "}">>), JStr(<<"[", "]">>), JStr(<<"{">>)}

ConfigOutcomes ==
    {[kind |-> "error", detail |-> d] : d \in Details}
    \cup {[kind |-> "response", content |-> c] : c \in ConfigContents}

CreateOutcomes ==
    {[kind |-> "ok"], [kind |-> "ResourceAlreadyExistsException"]}
    \cup {[kind |-> "error", detail |-> d] : d \in Details}

PutOutcomes ==
    {[kind |-> "ok"], [kind |-> "rejected"]} \cup {[kind |-> "error", detail |-> d] : d \in Details}

StartOutcomes == {[kind |-> "ok"]} \cup {[kind |-> "error", detail |-> d] : d \in Details}

QueryStatuses == {"Scheduled", "Running", "Complete", "Failed"}

PollOutcomes ==
    {[kind |-> "status", status |-> st] : st \in QueryStatuses}
    \cup {[kind |-> "error", detail |-> d] : d \in Details}

-----------------------------------------------------------------------------
(* The invocation as a state machine *)

\* a call as issued, and the calls once the last one has returned with outcome
Call(op, args) == [op |-> op, args |-> args, result |-> "pending", outcome |-> [kind |-> "pending"]]
Returned(cs, result, outcome) ==
    [cs EXCEPT ![Len(cs)].result = result, ![Len(cs)].outcome = outcome]
Polls(cs) == Cardinality({k \in 1..Len(cs) : cs[k].op = "get_query_results"})

Init ==
    /\ pc = "idle"
    /\ event = EmptyEvent
    /\ method = NoMethod
    /\ route = "none"
    /\ id_value = <<>>
    /\ body = None
    /\ time_range = NoRange
    /\ log_group_name = <<>>
    /\ timestamp = 0
    /\ calls = <<>>
    /\ raised = NoExc
    /\ response = NoResponse
    /\ logs = <<>>
    /\ written = <<>>
    /\ now = 0

\* an exception leaves the handler's try block
Fail(exc) ==
    /\ raised' = exc
    /\ response' = lambda_handler_except(exc)
    /\ pc' = "done"

\* variant: the config lookup is issued before the id is extracted and the input validated
HandleConfigFirst(ev, front) ==
    /\ calls' = <<Call("get_configuration", [ClientId |-> "ServiceHistoryLambda"])>>
    /\ IF ~front.ok
       THEN /\ Fail(front.exc)
            /\ UNCHANGED <<id_value, body, time_range>>
       ELSE /\ id_value' = front.value.id
            /\ body' = front.value.body
            /\ time_range' = front.value.range
            /\ pc' = "get_configuration"
            /\ UNCHANGED <<raised, response>>

\* lambda_handler has reached the call of handle_create_event or handle_read_event
Handle(ev, front) ==
    IF ~front.ok
    THEN /\ Fail(front.exc)
         /\ UNCHANGED <<id_value, body, time_range, calls>>
    ELSE /\ id_value' = front.value.id
         /\ body' = front.value.body
         /\ time_range' = front.value.range
         /\ calls' = <<Call("get_configuration", [ClientId |-> "ServiceHistoryLambda"])>>
         /\ pc' = "get_configuration"
         /\ UNCHANGED <<raised, response>>

\* lambda_handler: the branch of the method
Process(ev, m, branch) ==
    /\ method' = m
    /\ route' = branch
    /\ branch = "create" => Len(logs) < MaxRecords
    /\ CASE branch = "create" -> \E front \in {CreateFront(ev)} : Handle(ev, front)
         [] branch = "read" -> \E front \in {ReadFront(ev, now)} : Handle(ev, front)
         [] branch = "not_allowed" ->
                /\ response' = MethodNotAllowed
                /\ pc' = "done"
                /\ UNCHANGED <<id_value, body, time_range, calls, raised>>
         [] OTHER ->
                /\ response' = UnsupportedMethod(m)
                /\ pc' = "done"
                /\ UNCHANGED <<id_value, body, time_range, calls, raised>>

\* lambda_handler is called with ev and runs to its first collaborator call, or to its end
Invoke(ev) ==
    /\ pc = "idle"
    /\ event' = ev
    /\ UNCHANGED <<log_group_name, timestamp, logs, written, now>>
    /\ \E m \in {ResolveMethod(ev)} :
        IF ~m.ok
        THEN /\ Fail(m.exc)
             /\ UNCHANGED <<method, route, id_value, body, time_range, calls>>
        ELSE \E branch \in {Dispatch(m.value)} : Process(ev, m.value, branch)

\* the handler's next call once the log group name is known
AfterConfig(name, outcome) ==
    /\ log_group_name' = name
    /\ UNCHANGED <<raised, response>>
    /\ IF route = "create"
       THEN /\ calls' = Append(Returned(calls, "ok", outcome),
                               Call("create_log_group", [logGroupName |-> name]))
            /\ pc' = "create_log_group"
       ELSE /\ calls' = Append(Returned(calls, "ok", outcome),
                               Call("start_query",
                                    [logGroupName |-> name,
                                     startTime |-> TimestampMs(time_range.start),
                                     endTime |-> TimestampMs(time_range.end),
                                     queryString |-> QueryString(id_value)]))
            /\ pc' = "start_query"

\* get_configuration returns; get_log_group_name ends; the handler goes on to its next call
GetConfiguration(outcome) ==
    /\ pc = "get_configuration"
    /\ UNCHANGED <<event, method, route, id_value, body, time_range, timestamp, logs, written, now>>
    /\ \E name \in {get_log_group_name(outcome)} :
       \E checked \in {IF name.ok /\ route = "create"
                       THEN _validate_cloudwatch_inputs(name.value, id_value, body)
                       ELSE name} :
          IF ~checked.ok
          THEN /\ Fail(checked.exc)
               /\ calls' = Returned(calls, outcome.kind, outcome)
               /\ UNCHANGED log_group_name
          ELSE AfterConfig(name.value, outcome)

\* variant: a failed create_log_group is tried a second time
CreateLogGroupRetrying(outcome) ==
    /\ pc = "create_log_group"
    /\ UNCHANGED <<event, method, route, id_value, body, time_range, log_group_name, logs,
                   written, now>>
    /\ IF outcome.kind = "error" /\ Len(calls) = 2
       THEN /\ calls' = Append(Returned(calls, "error", outcome),
                               Call("create_log_group", [logGroupName |-> log_group_name]))
            /\ UNCHANGED <<pc, timestamp, raised, response>>
       ELSE IF outcome.kind = "error"
       THEN /\ Fail(ValidationError("Failed to create log group: ", outcome.detail))
            /\ calls' = Returned(calls, "error", outcome)
            /\ UNCHANGED timestamp
       ELSE /\ timestamp' = time_ms(now)
            /\ calls' = Append(Returned(calls, outcome.kind, outcome),
                               Call("create_log_stream",
                                    [logGroupName |-> log_group_name,
                                     logStreamName |-> LogStreamName(id_value, time_ms(now))]))
            /\ pc' = "create_log_stream"
            /\ UNCHANGED <<raised, response>>

\* create_log_group returns (_ensure_log_group_exists)
CreateLogGroup(outcome) ==
    /\ pc = "create_log_group"
    /\ UNCHANGED <<event, method, route, id_value, body, time_range, log_group_name, logs,
                   written, now>>
    /\ IF outcome.kind = "error"
       THEN /\ Fail(ValidationError("Failed to create log group: ", outcome.detail))
            /\ calls' = Returned(calls, "error", outcome)
            /\ UNCHANGED timestamp
       ELSE /\ timestamp' = time_ms(now)
            /\ calls' = Append(Returned(calls, outcome.kind, outcome),
                               Call("create_log_stream",
                                    [logGroupName |-> log_group_name,
                                     logStreamName |-> LogStreamName(id_value, time_ms(now))]))
            /\ pc' = "create_log_stream"
            /\ UNCHANGED <<raised, response>>

\* create_log_stream returns (_create_log_stream)
CreateLogStream(outcome) ==
    /\ pc = "create_log_stream"
    /\ UNCHANGED <<event, method, route, id_value, body, time_range, log_group_name,
                   timestamp, logs, written, now>>
    /\ IF outcome.kind = "error"
       THEN /\ Fail(ValidationError("Failed to create log stream: ", outcome.detail))
            /\ calls' = Returned(calls, "error", outcome)
       ELSE /\ calls' = Append(Returned(calls, outcome.kind, outcome),
                               Call("put_log_events",
                                    [logGroupName |-> log_group_name,
                                     logStreamName |-> LogStreamName(id_value, timestamp),
                                     timestamp |-> timestamp,
                                     message |-> json_dumps(EventData(id_value, timestamp, body))]))
            /\ pc' = "put_log_events"
            /\ UNCHANGED <<raised, response>>

\* put_log_events returns (_put_log_event); handle_create_event returns
PutLogEvents(outcome) ==
    /\ pc = "put_log_events"
    /\ UNCHANGED <<event, method, route, id_value, body, time_range, log_group_name,
                   timestamp, now>>
    /\ calls' = Returned(calls, outcome.kind, outcome)
    /\ IF outcome.kind = "error"
       THEN /\ Fail(ValidationError("Failed to write log events: ", outcome.detail))
            /\ UNCHANGED <<logs, written>>
       ELSE /\ logs' = IF outcome.kind = "ok" THEN Append(logs, calls[Len(calls)].args) ELSE logs
            /\ written' = IF outcome.kind = "ok"
                          THEN Append(written, [log_group_name |-> log_group_name,
                                                id_value |-> id_value, data |-> body,
                                                timestamp |-> timestamp])
                          ELSE written
            /\ response' = CreateResponse(id_value)
            /\ pc' = "done"
            /\ UNCHANGED raised

\* start_query returns
StartQuery(outcome) ==
    /\ pc = "start_query"
    /\ UNCHANGED <<event, method, route, id_value, body, time_range, log_group_name,
                   timestamp, logs, written, now>>
    /\ IF outcome.kind = "error"
       THEN /\ Fail(OtherError("ClientError", outcome.detail))
            /\ calls' = Returned(calls, "error", outcome)
       ELSE /\ calls' = Append(Returned(calls, "ok", outcome),
                               Call("get_query_results", [queryId |-> "q"]))
            /\ pc' = "get_query_results"
            /\ UNCHANGED <<raised, response>>

\* query_cloudwatch_logs and handle_read_event return with the rows of the last poll
FinishRead(rows) ==
    \E results \in {ProcessResults(rows, 1)} :
        /\ response' = ReadResponse(id_value, time_range, results)
        /\ pc' = "done"
        /\ UNCHANGED raised

\* get_query_results returns: the loop polls again, or handle_read_event returns
GetQueryResults(outcome) ==
    /\ pc = "get_query_results"
    /\ UNCHANGED <<event, method, route, id_value, body, time_range, log_group_name,
                   timestamp, logs, written, now>>
    /\ IF outcome.kind = "error"
       THEN /\ Fail(OtherError("ClientError", outcome.detail))
            /\ calls' = Returned(calls, "error", outcome)
       ELSE IF outcome.status = "Running"
       THEN /\ Polls(calls) < MaxPolls
            /\ calls' = Append(Returned(calls, outcome.status, outcome),
                               Call("get_query_results", [queryId |-> "q"]))
            /\ UNCHANGED <<pc, raised, response>>
       ELSE /\ calls' = Returned(calls, outcome.status, outcome)
            /\ \E q \in {calls[2].args} :
               \E rows \in {IF outcome.status = "Complete"
                            THEN Search(logs, q.logGroupName, q.startTime, q.endTime,
                                        q.queryString)
                            ELSE <<>>} :
                  FinishRead(rows)

\* the invocation is over; the next one starts from fresh locals
Return ==
    /\ pc = "done"
    /\ pc' = "idle"
    /\ event' = EmptyEvent
    /\ method' = NoMethod
    /\ route' = "none"
    /\ id_value' = <<>>
    /\ body' = None
    /\ time_range' = NoRange
    /\ log_group_name' = <<>>
    /\ timestamp' = 0
    /\ calls' = <<>>
    /\ raised' = NoExc
    /\ response' = NoResponse
    /\ UNCHANGED <<logs, written, now>>

\* an hour passes between invocations
Tick ==
    /\ pc = "idle"
    /\ now < MaxClock
    /\ now' = now + 1
    /\ UNCHANGED <<pc, event, method, route, id_value, body, time_range, log_group_name,
                   timestamp, calls, raised, response, logs, written>>

Next ==
    \/ \E ev \in Events : Invoke(ev)
    \/ \E o \in ConfigOutcomes : GetConfiguration(o)
    \/ \E o \in CreateOutcomes : CreateLogGroup(o)
    \/ \E o \in CreateOutcomes : CreateLogStream(o)
    \/ \E o \in PutOutcomes : PutLogEvents(o)
    \/ \E o \in StartOutcomes : StartQuery(o)
    \/ \E o \in PollOutcomes : GetQueryResults(o)
    \/ Return
    \/ Tick

Spec == Init /\ [][Next]_vars

-----------------------------------------------------------------------------
(* extract_id_from_path over all short paths, reached as both handlers reach *)
(* it: from the path of a gateway event and from the field name of a         *)
(* resolver event                                                            *)

PathChars == {"/", "x", "y", "\n"}
Paths == UNION {[1..n -> PathChars] : n \in 0..MaxPathLen}

ExtractEvents ==
    {Event(POST, JStr(p), Payload_m, Absent, Absent, Absent) : p \in Paths}
    \cup {Event(Absent, Absent, Absent, Absent,
                Info(JStr(p), JStr(<<"M", "u", "t", "a", "t", "i", "o", "n">>)), Payload_m)
          : p \in Paths}

ExtractInit ==
    /\ pc = "extract_id_from_path"
    /\ event \in ExtractEvents
    /\ method = POST
    /\ route = "create"
    /\ id_value = <<>>
    /\ body = None
    /\ time_range = NoRange
    /\ log_group_name = <<>>
    /\ timestamp = 0
    /\ calls = <<>>
    /\ raised = NoExc
    /\ response = NoResponse
    /\ logs = <<>>
    /\ written = <<>>
    /\ now = 0

\* handle_create_event: path taken from the event, id_value = extract_id_from_path(path)
ExtractId ==
    /\ pc = "extract_id_from_path"
    /\ pc' = "extracted"
    /\ \E inputs \in {CreateInputs(event)} :
       \E id \in {extract_id_from_path(inputs.value.path)} :
          IF id.ok
          THEN id_value' = id.value /\ UNCHANGED raised
          ELSE raised' = id.exc /\ UNCHANGED id_value
    /\ UNCHANGED <<event, method, route, body, time_range, log_group_name, timestamp,
                   calls, response, logs, written, now>>

ExtractNext == ExtractId

SpecExtract == ExtractInit /\ [][ExtractNext]_vars

-----------------------------------------------------------------------------
(* validate_read_input called on its own, beside the invocations of the     *)
(* handler                                                                   *)

ValidateInit ==
    /\ pc = "validate_read_input"
    /\ event = EmptyEvent
    /\ method = GET
    /\ route = "read"
    /\ id_value \in {<<>>, <<"x">>}
    /\ body \in QueryParamValues \cup {None}
    /\ time_range = NoRange
    /\ log_group_name = <<>>
    /\ timestamp = 0
    /\ calls = <<>>
    /\ raised = NoExc
    /\ response = NoResponse
    /\ logs = <<>>
    /\ written = <<>>
    /\ now \in 0..MaxClock

\* start_time, end_time = validate_read_input(query_params, id_value)
ValidateReadInput ==
    /\ pc = "validate_read_input"
    /\ pc' = "validated"
    /\ \E range \in {validate_read_input(body, id_value, now)} :
          IF range.ok
          THEN time_range' = range.value /\ UNCHANGED raised
          ELSE raised' = range.exc /\ UNCHANGED time_range
    /\ UNCHANGED <<event, method, route, id_value, body, log_group_name, timestamp,
                   calls, response, logs, written, now>>

ValidateNext ==
    \/ ValidateReadInput
    \/ Next

ValidateOrInvokeInit ==
    \/ Init
    \/ ValidateInit

SpecValidate == ValidateOrInvokeInit /\ [][ValidateNext]_vars

-----------------------------------------------------------------------------
(* Properties of the response envelope and of the dispatcher *)

\* the parsed body of a returned response
ResponseBody == json_loads(response.body).value

LastSlash(p) == Max({i \in 1..Len(p) : p[i] = "/"})
HasFinalSegment(p) == (\E i \in 1..Len(p) : p[i] = "/") /\ LastSlash(p) < Len(p)
FinalSegment(p) == SubSeq(p, LastSlash(p) + 1, Len(p))

GatewayPayload(ev) == IF IsStr(ev.body) THEN json_loads(ev.body.v) ELSE Ok(ev.body)

\* the write found in the calls: target, stream of the id, and every field of the payload
WriteIssued(target, id, payload) ==
    /\ Len(calls) = 4
    /\ calls[4].op = "put_log_events"
    /\ calls[4].args.logGroupName = target
    /\ calls[4].args.logStreamName = id \o <<"/">> \o Digits(calls[4].args.timestamp)
    /\ \A message \in {json_loads(calls[4].args.message)} :
        /\ message.ok
        /\ \A k \in Keys(payload) :
            HasKey(message.value, k) /\ Get(message.value, k) = Get(payload, k)

\* C2: a gateway POST or PUT with a path ending in a non-empty segment and a body
\* that is or parses to a non-empty object, whose config lookup gave a target and
\* none of whose storage calls failed, ends in 200 with success true and the id
\* of the last path segment, the write having been issued to the resolved target
\* with that id and that payload.
GatewayCreateSucceeds ==
    (/\ pc = "done"
     /\ event.httpMethod \in {POST, PUT}
     /\ IsStr(event.path)
     /\ HasFinalSegment(event.path.v)
     /\ calls # <<>>
     /\ \A k \in 1..Len(calls) : calls[k].result # "error")
    => \A payload \in {GatewayPayload(event)}, target \in {get_log_group_name(calls[1].outcome)} :
        (payload.ok /\ IsDict(payload.value) /\ Len(payload.value.v) > 0 /\ target.ok)
        => /\ response.kind = "return"
           /\ response.statusCode = 200
           /\ Get(ResponseBody, K_success) = JBool(TRUE)
           /\ Get(ResponseBody, K_id) = JStr(FinalSegment(event.path.v))
           /\ WriteIssued(target.value, FinalSegment(event.path.v), payload.value)

\* a PUT of a JSON text to /s/y that was stored
GatewayCreateSucceedsWitness ==
    /\ pc = "done"
    /\ event.httpMethod = PUT
    /\ event.path = P_y
    /\ IsStr(event.body)
    /\ Len(calls) = 4
    /\ calls[4].result = "ok"
    /\ response.statusCode = 200
    /\ id_value = <<"y">>

\* the records of a read response
Records == Get(ResponseBody, K_records).v

InWindow(ts) == TimestampMs(time_range.start) <= ts /\ ts <= TimestampMs(time_range.end)

\* rec has id x and every field of the payload with its written value
Retrieved(rec, x, payload) ==
    /\ IsDict(rec)
    /\ HasKey(rec, K_id)
    /\ Get(rec, K_id) = JStr(x)
    /\ \A k \in Keys(payload) : HasKey(rec, k) /\ Get(rec, k) = Get(payload, k)

\* C3: a read for id X that ended in 200 after a completed search has, for every
\* accepted earlier write for X to the same target whose timestamp lies in the
\* window, a record with id X and every field of the written payload.
RoundTrip ==
    (/\ pc = "done"
     /\ route = "read"
     /\ raised = NoExc
     /\ calls # <<>>
     /\ calls[Len(calls)].result = "Complete")
    => \A w \in 1..Len(written) :
        (/\ written[w].id_value = id_value
         /\ written[w].log_group_name = log_group_name
         /\ InWindow(written[w].timestamp))
        => \E r \in 1..Len(Records) : Retrieved(Records[r], id_value, written[w].data)

\* C4: whenever the create or the read path (or the dispatcher before them)
\* raised, the response is by the kind of the failure: for a ValidationError its
\* status code with body {message: its message, success: false}, for anything
\* else 500 with body {message: "Internal server error", success: false}.
FailureMapping ==
    (pc = "done" /\ raised # NoExc) =>
        /\ response.kind = "return"
        /\ json_loads(response.body).ok
        /\ IF raised.kind = "ValidationError"
           THEN /\ response.statusCode = raised.status_code
                /\ ResponseBody = JObj(<< <<K_message, JStr(raised.message)>>,
                                          <<K_success, JBool(FALSE)>> >>)
           ELSE /\ response.statusCode = 500
                /\ ResponseBody = JObj(<< <<K_message, JStr(<<"Internal server error">>)>>,
                                          <<K_success, JBool(FALSE)>> >>)

\* a rejected put_log_events on the create path and a failed search on the read path
FailureMappingWitness ==
    /\ pc = "done"
    /\ \/ /\ route = "create"
          /\ raised.kind = "ValidationError"
          /\ Len(calls) = 4
          /\ response.statusCode = 400
       \/ /\ route = "read"
          /\ raised.kind = "ClientError"
          /\ response.statusCode = 500

\* C5: a method other than POST, PUT and GET never makes a collaborator call;
\* DELETE and PATCH end in 405 with success false, any other method m, and a
\* method that could not be resolved, in 400 with "Unsupported method: <m>" and
\* success false.
NoCallOutsideCreateAndRead ==
    /\ (pc # "idle" /\ method \notin {POST, PUT, GET}) => calls = <<>>
    /\ (pc = "done" /\ raised = NoExc /\ method \in {DELETE, PATCH}) =>
        /\ response.statusCode = 405
        /\ Get(ResponseBody, K_success) = JBool(FALSE)
    /\ (pc = "done" /\ raised = NoExc /\ method \notin {POST, PUT, GET, DELETE, PATCH}) =>
        /\ response.statusCode = 400
        /\ Get(ResponseBody, K_success) = JBool(FALSE)
        /\ IsStr(method) =>
            Get(ResponseBody, K_message) = JStr(<<"Unsupported method: ">> \o method.v)

\* PATCH ended in 405 without a call
NoCallOutsideCreateAndReadWitness ==
    /\ pc = "done"
    /\ method = PATCH
    /\ response.statusCode = 405
    /\ calls = <<>>

-----------------------------------------------------------------------------
(* Properties of routing, extraction and validation *)

\* s is word in some letter-casing: lo and up are word in lower and in upper case
CasingOf(s, lo, up) == Len(s) = Len(lo) /\ \A k \in 1..Len(s) : s[k] = lo[k] \/ s[k] = up[k]
AnyMutation(s) == CasingOf(s, <<"m", "u", "t", "a", "t", "i", "o", "n">>, MUTATION)
AnyQuery(s) == CasingOf(s, <<"q", "u", "e", "r", "y">>, QUERY)

\* routing by the parent type name of the event in hand
RoutedByParentType ==
    IsStr(event.info.parentTypeName) =>
        /\ AnyMutation(event.info.parentTypeName.v) => route = "create"
        /\ AnyQuery(event.info.parentTypeName.v) => route = "read"

PathOf(ev) == IF ev.path.t # "absent" THEN ev.path.v ELSE ev.info.fieldName.v

\* C7: for every path over the alphabet, given as a gateway path or as a resolver
\* field name: when a "/" is followed by a non-empty final segment without "/",
\* the id is exactly that segment, not empty and without "/"; when the path is
\* empty, is "/" or ends in "/", extraction fails with a ValidationError.
ExtractsFinalSegment ==
    pc = "extracted" =>
        /\ HasFinalSegment(PathOf(event)) =>
            /\ raised = NoExc
            /\ id_value = FinalSegment(PathOf(event))
            /\ id_value # <<>>
            /\ \A k \in 1..Len(id_value) : id_value[k] # "/"
        /\ (PathOf(event) = <<>> \/ PathOf(event)[Len(PathOf(event))] = "/") =>
            /\ raised.kind = "ValidationError"
            /\ raised.status_code = 400

\* a field name of two segments gave the second, and a path ending in "/" failed
ExtractsFinalSegmentWitness ==
    /\ pc = "extracted"
    /\ \/ /\ event.path = Absent
          /\ PathOf(event) = <<"x", "/", "y">>
          /\ id_value = <<"y">>
       \/ /\ event.path = JStr(<<"/", "x", "/">>)
          /\ raised.kind = "ValidationError"

\* payload is what validate_create_input rejects
InvalidPayload(payload) == payload.t = "null" \/ ~IsDict(payload) \/ Len(payload.v) = 0

\* C8: a create request whose payload is None, is no mapping or is an empty
\* mapping (a gateway event without body included) ends in a ValidationError
\* with status 400 before any collaborator call; a non-empty mapping passes, so
\* that, the id being extractable, the config lookup is issued.
CreatePayloadValidation ==
    (pc # "idle" /\ pc # "validate_read_input" /\ pc # "validated" /\ route = "create") =>
        \A inputs \in {CreateInputs(event)} :
            inputs.ok =>
                IF InvalidPayload(inputs.value.body)
                THEN /\ pc = "done"
                     /\ raised.kind = "ValidationError"
                     /\ raised.status_code = 400
                     /\ response.statusCode = 400
                     /\ calls = <<>>
                ELSE extract_id_from_path(inputs.value.path).ok =>
                        /\ calls # <<>>
                        /\ calls[1].op = "get_configuration"

\* a gateway POST without body was rejected as empty, without a call
CreatePayloadValidationWitness ==
    /\ pc = "done"
    /\ route = "create"
    /\ event.path = P_x
    /\ event.body = Absent
    /\ raised.kind = "ValidationError"
    /\ raised.message = <<"Request body cannot be empty">>
    /\ calls = <<>>

Supplied(key) == IsDict(body) /\ HasKey(body, key)
Parseable(x) == IsStr(x) /\ \E p \in IsoTexts : x.v = <<p[1]>>
Malformed(key) == Supplied(key) /\ IsStr(Get(body, key)) /\ ~Parseable(Get(body, key))
SuppliedTime(key) == (CHOOSE p \in IsoTexts : Get(body, key).v = <<p[1]>>)[2]
Rejected(message) ==
    /\ raised.kind = "ValidationError"
    /\ raised.status_code = 400
    /\ raised.message = <<message>>

\* the start and the end that result from the parameters when both can be had
Resolvable == \A key \in {K_start, K_end} : Supplied(key) => Parseable(Get(body, key))
ResultingStart == IF Supplied(K_start) THEN SuppliedTime(K_start) ELSE Datetime(now - 1, FALSE, 0)
ResultingEnd == IF Supplied(K_end) THEN SuppliedTime(K_end) ELSE Datetime(now, FALSE, 0)
Before(a, b) == a.aware = b.aware /\ EpochHour(a) < EpochHour(b)
NotBefore(a, b) == a.aware = b.aware /\ EpochHour(a) >= EpochHour(b)

DefaultWindowPerField ==
    (pc = "validated" /\ id_value # <<>> /\ IsDict(body) /\ Resolvable
     /\ ~(Supplied(K_start) /\ Supplied(K_end)))
    => \/ /\ raised = NoExc
          /\ time_range = [start |-> ResultingStart, end |-> ResultingEnd]
          /\ Before(time_range.start, time_range.end)
       \/ /\ Supplied(K_start) \/ Supplied(K_end)
          /\ Rejected("Start time must be before end time")

-----------------------------------------------------------------------------
(* Properties of the event variants, the config lookup and the stored record *)

\* ev has no path and no info.fieldName: info is absent, or a mapping without fieldName
NoDiscriminator(ev) ==
    /\ ev.path = Absent
    /\ ev.info = Absent \/ (ev.info.t = "info" /\ ev.info.fieldName = Absent)

GatewayOnly(ev) ==
    /\ ev.info = Absent /\ ev.arguments = Absent
    /\ ev.httpMethod # Absent \/ ev.path # Absent

ResolverOnly(ev) ==
    /\ ev.httpMethod = Absent /\ ev.path = Absent
    /\ ev.body = Absent /\ ev.queryStringParameters = Absent
    /\ ev.info.t = "info"

\* the invocation has passed the handler's reading of the event, extraction and validation
Accepted == pc # "idle" /\ route \in {"create", "read"} /\ calls # <<>>

BlobLogGroup(outcome) ==
    IF outcome.kind # "response" \/ outcome.content.t = "absent" THEN None
    ELSE The({ IF blob.ok /\ IsDict(blob.value) /\ HasKey(blob.value, LOG_GROUP_CONFIG_KEY)
               THEN Get(blob.value, LOG_GROUP_CONFIG_KEY)
               ELSE None
               : blob \in {json_loads(outcome.content.v)} })

\* C12: whatever get_configuration did (failed, gave no Content, gave a blob that
\* is no JSON, no object, or has logGroup missing, empty or not a string), the
\* config lookup either gave a non-empty text equal to the blob's logGroup, or
\* ended the invocation with a ValidationError of status 400 and no name; it
\* never raised another kind of error.
ConfigLookupOneFailureKind ==
    (calls # <<>> /\ calls[1].op = "get_configuration" /\ calls[1].outcome.kind # "pending") =>
        \/ /\ raised = NoExc
           /\ log_group_name # <<>>
           /\ BlobLogGroup(calls[1].outcome) = JStr(log_group_name)
        \/ /\ Len(calls) = 1
           /\ pc = "done"
           /\ raised.kind = "ValidationError"
           /\ raised.status_code = 400
           /\ response.statusCode = 400
           /\ log_group_name = <<>>
        \/ /\ Len(calls) > 1
           /\ raised # NoExc
           /\ log_group_name # <<>>
           /\ BlobLogGroup(calls[1].outcome) = JStr(log_group_name)

\* a blob that is JSON but no object, and a transport failure, both ended in a ValidationError
ConfigLookupOneFailureKindWitness ==
    /\ pc = "done"
    /\ Len(calls) = 1
    /\ raised.kind = "ValidationError"
    /\ \/ calls[1].outcome.kind = "error"
       \/ /\ calls[1].outcome.kind = "response"
          /\ calls[1].outcome.content = JStr(<<"[", "]">>)

\* the stored event k is the record of the accepted write k: id, timestamp, the caller's other fields
RecordOf(k) ==
    \A message \in {json_loads(logs[k].message)} :
        /\ message.ok
        /\ IsDict(message.value)
        /\ Get(message.value, K_id) = JStr(written[k].id_value)
        /\ Get(message.value, K_timestamp) = JInt(written[k].timestamp)
        /\ logs[k].timestamp = written[k].timestamp
        /\ logs[k].logStreamName = written[k].id_value \o <<"/">> \o Digits(written[k].timestamp)
        /\ \A key \in Keys(written[k].data) \ {K_id, K_timestamp} :
            /\ HasKey(message.value, key)
            /\ Get(message.value, key) = Get(written[k].data, key)

\* C13: every accepted write of id X with payload P, a P with a key id or
\* timestamp included, stored one record whose id is X and whose timestamp is
\* the time of the append and of the stream name "X/<timestamp>", with the
\* remaining fields of P.
StoredRecordKeepsId ==
    /\ Len(logs) = Len(written)
    /\ \A k \in 1..Len(written) : RecordOf(k)

-----------------------------------------------------------------------------
(* Properties of the collaborator calls of one invocation *)

Failure(d) == [kind |-> "error", detail |-> d]

\* the pending collaborator call fails with the text d
FailsWith(d) ==
    \/ GetConfiguration(Failure(d))
    \/ CreateLogGroup(Failure(d))
    \/ CreateLogStream(Failure(d))
    \/ PutLogEvents(Failure(d))
    \/ StartQuery(Failure(d))
    \/ GetQueryResults(Failure(d))

\* the response bodies a failed call can end in: the generic one and the ones that carry a text
FailureBodies ==
    {json_dumps(FailureBody(<<"Internal server error">>))}
    \cup {json_dumps(FailureBody(Msg(fmt, d))) :
            fmt \in {"Could not retrieve log group configuration: ",
                     "Failed to create log group: ",
                     "Failed to create log stream: ",
                     "Failed to write log events: "},
            d \in Details}

\* C14: wherever a collaborator call is pending, the body of the response its
\* failure ends in is the same whatever the text of the failure: a body that
\* the failure with one text gives is also the body the failure with any other
\* text gives.
FailureDetailNeverLeaks ==
    \A d1 \in Details, d2 \in Details, b \in FailureBodies :
        ENABLED (FailsWith(d1) /\ response'.body = b)
        => ENABLED (FailsWith(d2) /\ response'.body = b)

CreateCalls == <<"get_configuration", "create_log_group", "create_log_stream", "put_log_events">>

\* the k-th call of a read: the config lookup, the start of the search, then polls
ReadCall(k) ==
    IF k = 1 THEN "get_configuration" ELSE IF k = 2 THEN "start_query" ELSE "get_query_results"

\* call k did not end the sequence: it returned without failure, the config lookup with a name
WentOn(k) ==
    /\ calls[k].outcome.kind \notin {"pending", "error"}
    /\ k = 1 => /\ BlobLogGroup(calls[1].outcome).t = "str"
                /\ BlobLogGroup(calls[1].outcome).v # <<>>
    /\ calls[k].op = "get_query_results" => calls[k].outcome.status = "Running"

\* C15: the calls of an invocation are a prefix of the sequence of its path,
\* create: config lookup, create_log_group, create_log_stream, put_log_events,
\* each once; read: config lookup, start_query, polls; there is none unless the
\* id was extracted and the input validated; every call before the last one
\* returned without failure ('already exists' on creation counts as none), and a
\* call that failed is the last one and the invocation is over.
CallsFormPrefix ==
    /\ route \notin {"create", "read"} => calls = <<>>
    /\ route = "create" =>
        /\ Len(calls) <= Len(CreateCalls)
        /\ \A k \in 1..Len(calls) : calls[k].op = CreateCalls[k]
    /\ route = "read" => \A k \in 1..Len(calls) : calls[k].op = ReadCall(k)
    /\ calls # <<>> =>
        /\ id_value # <<>>
        /\ route = "create" => IsDict(body) /\ Len(body.v) > 0
        /\ route = "read" => Before(time_range.start, time_range.end)
    /\ \A k \in 1..Len(calls) :
        /\ k < Len(calls) => WentOn(k)
        /\ calls[k].outcome.kind = "pending" => k = Len(calls) /\ pc = calls[k].op
        /\ calls[k].outcome.kind = "error" => k = Len(calls) /\ pc = "done" /\ raised # NoExc

\* create_log_group said 'already exists', create_log_stream failed and ended the sequence
CallsFormPrefixWitness ==
    /\ pc = "done"
    /\ route = "create"
    /\ Len(calls) = 3
    /\ calls[2].outcome.kind = "ResourceAlreadyExistsException"
    /\ calls[3].outcome.kind = "error"

\* C16: a read that ended in 200 polled the search at least once, every poll
\* before the last said Running, and the last poll, whose results are the
\* records of the response, said Complete.
ReadsOnlyCompletedSearch ==
    (pc = "done" /\ route = "read" /\ raised = NoExc /\ response.statusCode = 200) =>
        /\ Len(calls) >= 3
        /\ \A k \in 3..(Len(calls) - 1) : calls[k].outcome.status = "Running"
        /\ calls[Len(calls)].op = "get_query_results"
        /\ calls[Len(calls)].outcome.status = "Complete"

\* some storage call of the invocation reported a failure, 'already exists' on creation apart
StorageFailed == \E k \in 2..Len(calls) : calls[k].outcome.kind = "error"

\* put_log_events answered with rejectedLogEventsInfo: the event was not stored
RecordNotAccepted ==
    /\ Len(calls) = 4
    /\ calls[4].outcome.kind = "rejected"

\* C17: on the create path 'already exists' from create_log_group or
\* create_log_stream does not abort the write: when nothing else fails the event
\* is appended and the response is 200; and whenever a storage call reports
\* another failure, or the appended event is not accepted, the response is not 200.
OnlyAlreadyExistsSwallowed ==
    (pc = "done" /\ route = "create" /\ Len(calls) >= 2) =>
        /\ (/\ \E k \in 2..3 : k <= Len(calls)
                               /\ calls[k].outcome.kind = "ResourceAlreadyExistsException"
            /\ Len(calls) = 4
            /\ calls[4].outcome.kind = "ok") =>
            /\ response.statusCode = 200
            /\ Len(logs) > 0
            /\ logs[Len(logs)] = calls[4].args
        /\ (StorageFailed \/ RecordNotAccepted) => response.statusCode # 200

-----------------------------------------------------------------------------
(* Termination of an invocation *)

\* a pending call other than a poll returns, with a result or with a failure
CallReturns ==
    \/ \E o \in ConfigOutcomes : GetConfiguration(o)
    \/ \E o \in CreateOutcomes : CreateLogGroup(o)
    \/ \E o \in CreateOutcomes : CreateLogStream(o)
    \/ \E o \in PutOutcomes : PutLogEvents(o)
    \/ \E o \in StartOutcomes : StartQuery(o)

\* a poll returns with a failure or with a status other than Running
PollEnds ==
    \E o \in PollOutcomes :
        /\ IF o.kind = "status" THEN o.status # "Running" ELSE TRUE
        /\ GetQueryResults(o)

\* every pending call returns, and the search does not stay Running for ever
SpecLive == Spec /\ WF_vars(CallReturns) /\ WF_vars(PollEnds)

\* C18: an invocation that has begun ends with its response, given that every
\* call returns and the search status stops being Running; the only step that
\* leaves the handler where it was is a poll that said Running; outside the read
\* path an invocation makes at most the four calls of a create, and a rejected
\* request has ended without any.
InvocationCompletes ==
    /\ (pc # "idle") ~> (pc = "done" /\ response.kind = "return")
    /\ [][(pc' = pc) => (pc = "get_query_results" \/ pc = "idle")]_vars
    /\ [](route # "read" => Len(calls) <= Len(CreateCalls))
    /\ []((pc # "idle" /\ calls = <<>>) => pc = "done")

\* a read ended after a poll that said Running and a second poll
InvocationCompletesWitness ==
    /\ pc = "done"
    /\ route = "read"
    /\ Len(calls) = 4
    /\ calls[3].outcome.kind = "status"
    /\ calls[3].outcome.status = "Running"
    /\ response.kind = "return"

-----------------------------------------------------------------------------
(* Isolation of the reads by identifier *)

\* rec is the record of an accepted write made for the id x
WrittenFor(rec, x) ==
    \E w \in 1..Len(written) :
        /\ written[w].id_value = x
        /\ written[w].log_group_name = log_group_name
        /\ \A key \in Keys(written[w].data) \ {K_id, K_timestamp} :
            HasKey(rec, key) /\ Get(rec, key) = Get(written[w].data, key)

\* C19: every record of a 200 read response for the id X has the id X and is
\* the record of a write made for X; a record written under another id is not
\* returned, whether or not X occurs in its text.
ReadIsolation ==
    (/\ pc = "done"
     /\ route = "read"
     /\ raised = NoExc
     /\ response.statusCode = 200)
    => \A r \in 1..Len(Records) :
        /\ IsDict(Records[r])
        /\ HasKey(Records[r], K_id)
        /\ Get(Records[r], K_id) = JStr(id_value)
        /\ WrittenFor(Records[r], id_value)

====
